---- MODULE Spec2Model ----
(***************************************************************************)
(* Model of estoque_YV.py: a Streamlit stock recorder backed by a Google   *)
(* spreadsheet (sheets ITENS, SALDOS, TRANSACOES, CONTAGENS).              *)
(*                                                                         *)
(* Every browser session runs the script top to bottom on each interaction.*)
(* The spreadsheet and the st.cache_data cache of read_saldos_df are       *)
(* shared by all sessions of the server process.  Each call to the         *)
(* spreadsheet API is one atomic step; the steps of different sessions     *)
(* interleave.  A failing API call raises without changing the sheet.      *)
(*                                                                         *)
(* Quantities are integers: the code's floats are whole numbers here, so   *)
(* abs(diferenca) > 1e-9 is diferenca # 0.                                 *)
(***************************************************************************)
EXTENDS Integers, Sequences, FiniteSets, TLC

\* ---------------------------------------------------------------- bounds
\* The largest quantity a user enters.
MaxQty == 1
\* Movements started by the single writer when no API call fails.
MaxMoves == 3
\* Movements started by the single writer when API calls may fail.
MaxMovesFault == 2
\* API calls that fail within one movement.
MaxFaults == 3
\* Movements started by the single writer when sheets may be absent.
MaxMovesAbsent == 1
\* Movements started by the single writer on a sheet SALDOS filled by hand.
MaxMovesNorm == 1
\* Movements started by the single writer when users log in and out.
MaxMovesAuth == 1

\* with_retry(fn, *, tries=3, ...)
tries == 3

Sessions == {"u1", "u2"}

\* The sheet USUARIOS: the user_id of its rows, and the rows whose ativo
\* flag is set when the program starts.  A browser session is named after
\* the user who works in it.
UserIds == {"u1", "u2", "u3"}
ActiveUsers == {"u1", "u2"}

\* No user_id in st.session_state, no cookie.
NoUser == ""

\* The sheets a movement writes.
SheetNames == {"TRANSACOES", "CONTAGENS", "SALDOS"}

\* ------------------------------------------------------------- identifiers
\* An identifier is a sequence of one-character strings.
upper(c) == CASE c = "a" -> "A"
              [] c = "b" -> "B"
              [] c = "x" -> "X"
              [] OTHER -> c

RECURSIVE lstrip(_)
lstrip(x) == IF x # <<>> /\ Head(x) = " " THEN lstrip(Tail(x)) ELSE x

RECURSIVE rstrip(_)
rstrip(x) == IF x # <<>> /\ x[Len(x)] = " "
             THEN rstrip(SubSeq(x, 1, Len(x) - 1)) ELSE x

strip(x) == rstrip(lstrip(x))

\* A mutation of normalize_item_id: the case is kept.
normalize_strip_only(x) == strip(x)

\* str(x or "").strip().upper()
normalize_item_id(x) == [k \in 1..Len(strip(x)) |-> upper(strip(x)[k])]

\* The identifiers a user scans or types.
RawIds == { <<"A">>, <<"a">>, <<" ", "A", " ">>, <<"B">>, <<"b", " ">>,
            <<"X">> }

\* The sheet ITENS (reference data, edited outside the program).
ITENS == << [item_id |-> <<"A">>], [item_id |-> <<"b">>] >>

NoItem == <<>>

Modes == {"ENTRADA", "SAIDA", "INVENTARIO"}
Qtys == 0..MaxQty

\* get_item: the first row of ITENS whose normalized item_id is the
\* normalized identifier, 0 when there is none.
get_item(itens_df, item_id) ==
    LET hits == { k \in 1..Len(itens_df) :
                    normalize_item_id(itens_df[k].item_id)
                        = normalize_item_id(item_id) }
    IN  IF hits = {} THEN 0 ELSE CHOOSE k \in hits : \A j \in hits : k <= j

VARIABLES
    transacoes,   \* sheet TRANSACOES: sequence of rows
    contagens,    \* sheet CONTAGENS: sequence of rows
    saldos,       \* sheet SALDOS: sequence of rows of two cells
    cache,        \* st.cache_data entry of read_saldos_df
    pc,           \* per session: where its script run stands
    mode,         \* per session: st.session_state["mode"]
    item,         \* per session: query parameter item, normalized
    ui,           \* per session: what its script signalled in the last step
    loc,          \* per session: the locals of the running handler
    nextId,       \* the next uuid
    faults,       \* per session: API calls that failed in its movement
    present,      \* the sheets of SheetNames the spreadsheet has
    usuarios,     \* sheet USUARIOS: the user_id of the rows flagged ativo
    ucache,       \* st.cache_data entry of read_users_df: active user_ids
    user,         \* per session: st.session_state["user_id"]
    cookie        \* per session: the cookie user_id of its browser

vars == << transacoes, contagens, saldos, cache, pc, mode, item, ui, loc,
           nextId, faults, present, usuarios, ucache, user, cookie >>

\* The spreadsheet's structure, the users and the logins.
env == << present, usuarios, ucache, user, cookie >>

sheets == << transacoes, contagens, saldos >>

\* A cell of the column saldo_atual: <<>> when empty, <<n>> otherwise.
EmptyCell == <<>>

\* pd.to_numeric(..., errors="coerce").fillna(0.0)
to_numeric(cell) == IF cell = EmptyCell THEN 0 ELSE cell[1]

\* read_saldos_df._read: the sheet as a frame, identifiers normalized.
read_saldos(ws) ==
    [k \in 1..Len(ws) |->
        [item_id |-> normalize_item_id(ws[k].item_id),
         saldo_atual |-> to_numeric(ws[k].saldo_atual)]]

NoCache == [valid |-> FALSE, df |-> <<>>]

\* read_saldos_df(): the cached frame, read from the sheet on a miss.
read_saldos_df == IF cache.valid THEN cache.df ELSE read_saldos(saldos)

CacheAfterRead == [valid |-> TRUE, df |-> read_saldos_df]

\* get_saldo_cached over a frame df.
get_saldo(df, item_id) ==
    LET hits == { k \in 1..Len(df) : df[k].item_id = normalize_item_id(item_id) }
    IN  IF hits = {} THEN 0
        ELSE df[CHOOSE k \in hits : \A j \in hits : k <= j].saldo_atual

get_saldo_cached(item_id) == get_saldo(read_saldos_df, item_id)

\* ws.update_cell(row, col, value) on the data rows of SALDOS
\* (row 1 of the sheet is the header: data row r is sheet row r + 1).
BlankRow == [item_id |-> <<>>, saldo_atual |-> EmptyCell]

update_cell(ws, r, col, v) ==
    LET ext == IF r > Len(ws) THEN Append(ws, BlankRow) ELSE ws
    IN  [ext EXCEPT ![r] = [@ EXCEPT ![col] = v]]

\* st.error, st.toast or an uncaught exception of session s in this step;
\* "none" for every session whose script showed nothing in this step.
Signal(s, kind) == [t \in Sessions |-> IF t = s THEN kind ELSE "none"]

Quiet == [t \in Sessions |-> "none"]

\* The locals of the handler; in with_retry, i counts the attempts that
\* raised and last is the attempt whose exception the name last holds
\* (0 for None).
Loc0 == [qtd |-> 0, chk |-> FALSE, saldo_atual |-> 0, acao |-> "",
         delta |-> 0, id |-> 0, i |-> 0, novo |-> 0, row |-> 0, last |-> 0]

\* The recorder of every session, the empty ledgers and the caches.
InitRecorder ==
    /\ transacoes = <<>>
    /\ contagens = <<>>
    /\ cache = NoCache
    /\ mode = [s \in Sessions |-> "ENTRADA"]
    /\ item = [s \in Sessions |-> NoItem]
    /\ ui = Quiet
    /\ loc = [s \in Sessions |-> Loc0]
    /\ nextId = 1
    /\ faults = [s \in Sessions |-> 0]
    /\ present = SheetNames
    /\ usuarios = ActiveUsers
    /\ ucache = ActiveUsers

\* The sheet SALDOS is empty as well.
InitStore ==
    /\ InitRecorder
    /\ saldos = <<>>

\* Every session has passed the login of lines 350-417: its user is active
\* and logged in, the cookie saved (lines 404-409).
Init ==
    /\ InitStore
    /\ pc = [s \in Sessions |-> "await"]
    /\ user = [s \in Sessions |-> s]
    /\ cookie = [s \in Sessions |-> s]

\* A session whose script run has ended at the recorder and that waits for
\* the user; "broken" is a run that raised before the form was drawn.
AtRest(s) == pc[s] \in {"await", "notfound", "loaded", "broken"}

\* A mutation of the login gate: any user_id in the session passes.
authed_unchecked(s) == user[s] # NoUser

\* Lines 380-392: the session holds the user_id of an active user of the
\* cached USUARIOS frame, so the run goes past the login screen.
Authed(s) == user[s] # NoUser /\ user[s] \in ucache

\* read_saldos_df raises: no cached frame and no sheet SALDOS (line 140),
\* whatever the number of attempts of its with_retry.
ReadFails == ~cache.valid /\ "SALDOS" \notin present


\* ------------------------------------------------------ the script's rules
Abs(n) == IF n < 0 THEN -n ELSE n

\* A mutation of needs_confirm: the checkbox is never consulted.
needs_confirm_always(m, saldo_atual, qtd, chk) == TRUE

\* Lines 575-583: the checkbox is consulted only for a SAIDA whose projected
\* balance is negative; otherwise needs_confirm keeps its initial True.
needs_confirm(m, saldo_atual, qtd, chk) ==
    IF m = "SAIDA" /\ saldo_atual - qtd < 0 THEN chk ELSE TRUE

\* A mutation of the quantity validation: qtd < 0 in place of qtd <= 0.
qty_rejected_negative(m, qtd) == m \in {"ENTRADA", "SAIDA"} /\ qtd < 0

\* Lines 594-596: quantity validation.
qty_rejected(m, qtd) == m \in {"ENTRADA", "SAIDA"} /\ qtd <= 0

\* A mutation of the negative-balance check: no SAIDA is stopped.
negative_rejected_never(m, saldo_atual, qtd, chk) == FALSE

\* Lines 598-602: negative-balance check.
negative_rejected(m, saldo_atual, qtd, chk) ==
    /\ m = "SAIDA"
    /\ saldo_atual - qtd < 0
    /\ ~needs_confirm(m, saldo_atual, qtd, chk)

\* A mutation of the signed quantity: the difference of a count is taken
\* the other way round.
delta_of_reversed(m, saldo_atual, qtd) ==
    CASE m = "ENTRADA" -> qtd
      [] m = "SAIDA" -> -qtd
      [] OTHER -> saldo_atual - qtd

\* Lines 606-608 and 646-653: the signed quantity of the movement.
delta_of(m, saldo_atual, qtd) ==
    CASE m = "ENTRADA" -> qtd
      [] m = "SAIDA" -> -qtd
      [] OTHER -> qtd - saldo_atual

\* Lines 631, 647, 651: the acao column.
acao_of(m) == IF m = "INVENTARIO" THEN "AJUSTE" ELSE m

\* A mutation of the sinal column: the sign of an adjustment is lost.
sinal_store_positive(acao, delta) == IF acao = "SAIDA" THEN -1 ELSE 1

\* Lines 625, 649, 653: the sinal column.
sinal_store(acao, delta) ==
    CASE acao = "ENTRADA" -> 1
      [] acao = "SAIDA" -> -1
      [] OTHER -> IF delta > 0 THEN 1 ELSE -1

\* Lines 633, 661: the quantidade column.
quantidade_of(acao, qtd, delta) == IF acao = "AJUSTE" THEN Abs(delta) ELSE qtd

\* Lines 627-637 and 655-665: the TRANSACOES row of session s.
TransRow(s) ==
    [trans_id |-> loc[s].id,
     item_id |-> item[s],
     acao |-> loc[s].acao,
     sinal |-> sinal_store(loc[s].acao, loc[s].delta),
     quantidade |-> quantidade_of(loc[s].acao, loc[s].qtd, loc[s].delta),
     quantidade_efetiva |-> loc[s].delta,
     user_id |-> user[s]]

\* Lines 612-620: the CONTAGENS row of session s.
CountRow(s) ==
    [contagem_id |-> loc[s].id,
     item_id |-> item[s],
     saldo_teorico_no_momento |-> loc[s].saldo_atual,
     quantidade_contada |-> loc[s].qtd,
     diferenca |-> loc[s].delta,
     user_id |-> user[s]]

\* append_row._append: ws.append_row(values) adds the row after the last
\* one; a mutation of it writes over the last row.
append_row_over(ws, row) ==
    IF ws = <<>> THEN << row >> ELSE [ws EXCEPT ![Len(ws)] = row]

\* Another mutation of it adds the row twice.
append_row_twice(ws, row) == Append(Append(ws, row), row)

append_row(ws, row) == Append(ws, row)

\* A mutation of with_retry: there is always another attempt.
retry_always(i) == TRUE

\* with_retry: after a failed attempt i, is there another attempt?
retry_again(i) == i + 1 < tries

\* ----------------------------------------------------------- page actions
\* The read of the balance raises at line 552: the run ends with the
\* exception on screen, the form not drawn.
PageBroken(s) ==
    /\ pc' = [pc EXCEPT ![s] = "broken"]
    /\ ui' = Signal(s, "exception")
    /\ cache' = cache

\* Lines 550-573: the form is drawn with the balance read at line 552.
PageLoaded(s) ==
    IF ReadFails
    THEN PageBroken(s)
    ELSE /\ pc' = [pc EXCEPT ![s] = "loaded"]
         /\ ui' = Signal(s, "none")
         /\ cache' = CacheAfterRead

\* A mutation of the item load: the result of get_item is not consulted.
page_run_unchecked(s, it) == PageLoaded(s)

\* The script from the mode selector to the form (lines 475-573) for the
\* identifier it: not found stops at line 548, found reads the balance.
PageRun(s, it) ==
    IF get_item(ITENS, it) = 0
    THEN /\ pc' = [pc EXCEPT ![s] = "notfound"]
         /\ ui' = Signal(s, "err_notfound")
         /\ cache' = cache
    ELSE PageLoaded(s)

\* The page is opened with ?item=raw (a scanned QR code), lines 492-509:
\* a new browser session, whose mode is the default of line 343.
OpenUrl(s, raw) ==
    /\ AtRest(s)
    /\ Authed(s)
    /\ raw # <<>>
    /\ item' = [item EXCEPT ![s] = normalize_item_id(raw)]
    /\ mode' = [mode EXCEPT ![s] = "ENTRADA"]
    /\ PageRun(s, normalize_item_id(raw))
    /\ UNCHANGED << sheets, loc, nextId, faults, env >>

\* The user types an identifier: on_item_change, lines 498-503.
TypeItem(s, raw) ==
    /\ AtRest(s)
    /\ Authed(s)
    /\ normalize_item_id(raw) # <<>>
    /\ item' = [item EXCEPT ![s] = normalize_item_id(raw)]
    /\ PageRun(s, normalize_item_id(raw))
    /\ UNCHANGED << sheets, mode, loc, nextId, faults, env >>

\* The mode selector, lines 475-483, and the rerun it causes.
SetMode(s, m) ==
    /\ AtRest(s)
    /\ Authed(s)
    /\ m # mode[s]
    /\ mode' = [mode EXCEPT ![s] = m]
    /\ IF pc[s] = "await"
       THEN /\ ui' = Signal(s, "none")
            /\ UNCHANGED << pc, cache >>
       ELSE PageRun(s, item[s])
    /\ UNCHANGED << sheets, item, loc, nextId, faults, env >>

\* reset_for_next_item, lines 224-229.
reset_for_next_item(s) ==
    /\ item' = [item EXCEPT ![s] = NoItem]
    /\ pc' = [pc EXCEPT ![s] = "await"]

\* "Limpar item", lines 677-678: the script runs to the button, then resets.
Limpar(s) ==
    /\ pc[s] = "loaded"
    /\ Authed(s)
    /\ IF ReadFails
       THEN /\ PageBroken(s)
            /\ UNCHANGED item
       ELSE /\ cache' = CacheAfterRead
            /\ reset_for_next_item(s)
            /\ ui' = Signal(s, "none")
    /\ UNCHANGED << sheets, mode, loc, nextId, faults, env >>

\* The user sets the quantity (and the checkbox) and presses the confirm
\* button: the widget values are stored and the script reruns.
ConfirmClick(s, q, chk) ==
    /\ pc[s] = "loaded"
    /\ chk => mode[s] = "SAIDA"
    /\ pc' = [pc EXCEPT ![s] = "rerun"]
    /\ loc' = [loc EXCEPT ![s] = [Loc0 EXCEPT !.qtd = q, !.chk = chk]]
    /\ ui' = Quiet
    /\ UNCHANGED << sheets, cache, mode, item, nextId, faults, env >>

\* The rerun of the click: lines 552-602 and the choice of branch.
ConfirmRun(s) ==
    /\ pc[s] = "rerun"
    /\ Authed(s)
    /\ cache' = IF ReadFails THEN cache ELSE CacheAfterRead
    /\ LET sa == get_saldo_cached(item[s])
           q == loc[s].qtd
       IN  IF ReadFails
           THEN /\ ui' = Signal(s, "exception")
                /\ pc' = [pc EXCEPT ![s] = "broken"]
                /\ loc' = [loc EXCEPT ![s] = Loc0]
                /\ UNCHANGED nextId
           ELSE IF qty_rejected(mode[s], q)
           THEN /\ ui' = Signal(s, "err_qty")
                /\ pc' = [pc EXCEPT ![s] = "loaded"]
                /\ loc' = [loc EXCEPT ![s] = Loc0]
                /\ UNCHANGED nextId
           ELSE IF negative_rejected(mode[s], sa, q, loc[s].chk)
           THEN /\ ui' = Signal(s, "err_confirm")
                /\ pc' = [pc EXCEPT ![s] = "loaded"]
                /\ loc' = [loc EXCEPT ![s] = Loc0]
                /\ UNCHANGED nextId
           ELSE /\ ui' = Signal(s, "none")
                /\ pc' = [pc EXCEPT ![s] =
                            IF mode[s] = "INVENTARIO" THEN "count_append"
                            ELSE "trans_append"]
                /\ loc' = [loc EXCEPT ![s] =
                            [@ EXCEPT !.saldo_atual = sa,
                                      !.chk = FALSE,
                                      !.acao = acao_of(mode[s]),
                                      !.delta = delta_of(mode[s], sa, q),
                                      !.id = nextId]]
                /\ nextId' = nextId + 1
    /\ UNCHANGED << sheets, mode, item, faults, env >>


\* ------------------------------------------------------- the write steps
\* A call on the sheet name raises: sh.worksheet(name) when the sheet is
\* absent (lines 157, 192), or the API on a call the sheet rejects.
CallFails(s, name) == name \notin present \/ faults[s] < MaxFaults

\* toast_ok("Registrado"); reset_for_next_item()  (lines 641-642, 669-670)
Registrado(s) ==
    /\ ui' = Signal(s, "ok")
    /\ reset_for_next_item(s)
    /\ loc' = [loc EXCEPT ![s] = Loc0]
    /\ faults' = [faults EXCEPT ![s] = 0]

\* A mutation of the way an exception leaves the script: it is swallowed
\* and the movement ends as a recorded one.
raised_swallowed(s) == Registrado(s)

\* An exception leaves the script: Streamlit shows it and the run ends with
\* the query parameter untouched.
\* The exception of attempt e is the one shown.
RaisedWith(s, e) ==
    /\ ui' = Signal(s, "exception")
    /\ pc' = [pc EXCEPT ![s] = "loaded"]
    /\ loc' = [loc EXCEPT ![s] = [Loc0 EXCEPT !.last = e]]
    /\ faults' = [faults EXCEPT ![s] = 0]
    /\ UNCHANGED item

\* with_retry, line 53: raise last, after the attempt that has just failed.
Raised(s) == RaisedWith(s, loc[s].i + 1)

\* with_retry, lines 44-52: attempt i of fn raised and another follows;
\* fn starts again at restart.
Retry(s, restart) ==
    /\ loc' = [loc EXCEPT ![s].i = @ + 1, ![s].row = 0,
                          ![s].last = loc[s].i + 1]
    /\ pc' = [pc EXCEPT ![s] = restart]
    /\ faults' = [faults EXCEPT ![s] = @ + 1]
    /\ ui' = Quiet
    /\ UNCHANGED item

\* A mutation of line 624: the adjustment is written whatever the
\* difference.
after_count_always(s, failed) ==
    /\ pc' = [pc EXCEPT ![s] = "trans_append"]
    /\ loc' = [loc EXCEPT ![s].i = 0, ![s].last = 0]
    /\ faults' = [faults EXCEPT ![s] = @ + failed]
    /\ ui' = Quiet
    /\ UNCHANGED item

\* A mutation of the INVENTARIO branch: the adjustment goes to the balance
\* without its Transaction.
after_count_no_ledger(s, failed) ==
    IF loc[s].delta # 0
    THEN /\ pc' = [pc EXCEPT ![s] = "delta_read"]
         /\ loc' = [loc EXCEPT ![s].i = 0, ![s].last = 0]
         /\ faults' = [faults EXCEPT ![s] = @ + failed]
         /\ ui' = Quiet
         /\ UNCHANGED item
    ELSE Registrado(s)

\* After the try/except of lines 611-622: the adjustment, or straight to the
\* toast when the count equals the theoretical balance (line 624).
\* failed is 1 when the last attempt of the CONTAGENS append raised.
AfterCount(s, failed) ==
    IF loc[s].delta # 0
    THEN /\ pc' = [pc EXCEPT ![s] = "trans_append"]
         /\ loc' = [loc EXCEPT ![s].i = 0, ![s].last = 0]
         /\ faults' = [faults EXCEPT ![s] = @ + failed]
         /\ ui' = Quiet
         /\ UNCHANGED item
    ELSE Registrado(s)

\* append_row("CONTAGENS", ...): an attempt of _append that succeeds.
CountAppend(s) ==
    /\ pc[s] = "count_append"
    /\ "CONTAGENS" \in present
    /\ contagens' = append_row(contagens, CountRow(s))
    /\ AfterCount(s, 0)
    /\ UNCHANGED << transacoes, saldos, cache, mode, nextId, env >>

\* An attempt of _append on CONTAGENS that raises; after the last attempt
\* with_retry raises and line 621 swallows the exception.
CountAppendFail(s) ==
    /\ pc[s] = "count_append"
    /\ CallFails(s, "CONTAGENS")
    /\ IF retry_again(loc[s].i)
       THEN Retry(s, "count_append")
       ELSE AfterCount(s, 1)
    /\ UNCHANGED << sheets, cache, mode, nextId, env >>

\* append_row("TRANSACOES", ...): an attempt of _append that succeeds.
TransAppend(s) ==
    /\ pc[s] = "trans_append"
    /\ "TRANSACOES" \in present
    /\ transacoes' = append_row(transacoes, TransRow(s))
    /\ pc' = [pc EXCEPT ![s] = "delta_read"]
    /\ ui' = Quiet
    /\ UNCHANGED << contagens, saldos, cache, mode, item, loc, nextId,
                    faults, env >>

\* An attempt of _append on TRANSACOES that raises.
TransAppendFail(s) ==
    /\ pc[s] = "trans_append"
    /\ CallFails(s, "TRANSACOES")
    /\ IF retry_again(loc[s].i)
       THEN Retry(s, "trans_append")
       ELSE Raised(s)
    /\ UNCHANGED << sheets, cache, mode, nextId, env >>

\* apply_delta, line 219: novo = float(saldo) + float(delta), a mutation
\* of which is to write the delta alone.
novo_delta_only(saldo, delta) == delta

novo_of(saldo, delta) == saldo + delta

\* apply_delta, lines 218-219: read the balance, add the delta.
\* When read_saldos_df raises, the exception of its last attempt leaves
\* apply_delta and the script.
DeltaRead(s) ==
    /\ pc[s] = "delta_read"
    /\ IF ReadFails
       THEN /\ RaisedWith(s, tries)
            /\ UNCHANGED cache
       ELSE /\ cache' = CacheAfterRead
            /\ loc' = [loc EXCEPT ![s] =
                        [@ EXCEPT !.novo = novo_of(get_saldo_cached(item[s]),
                                                   loc[s].delta),
                                  !.i = 0,
                                  !.last = 0]]
            /\ pc' = [pc EXCEPT ![s] = "set_scan"]
            /\ ui' = Quiet
            /\ UNCHANGED << item, faults >>
    /\ UNCHANGED << sheets, mode, nextId, env >>

\* A mutation of find_row: the scan never finds the identifier.
find_row_none(ws, item_id) == 0

\* _set, lines 197-199: the first row of the item column that holds the
\* identifier, 0 when there is none.
find_row(ws, item_id) ==
    LET hits == { k \in 1..Len(ws) : normalize_item_id(ws[k].item_id) = item_id }
    IN  IF hits = {} THEN 0 ELSE CHOOSE k \in hits : \A j \in hits : k <= j

\* A mutation of next_row: the new row is put over the last one.
next_row_last(ws) == IF ws = <<>> THEN 1 ELSE Len(ws)

\* _set, line 204: next_row = len(col_vals) + 1, as a data row.
next_row(ws) == Len(ws) + 1

\* _set, lines 192-204: read the item column and choose the row.
SetScan(s) ==
    /\ pc[s] = "set_scan"
    /\ "SALDOS" \in present
    /\ IF find_row(saldos, item[s]) # 0
       THEN /\ loc' = [loc EXCEPT ![s].row = find_row(saldos, item[s])]
            /\ pc' = [pc EXCEPT ![s] = "set_update"]
       ELSE /\ loc' = [loc EXCEPT ![s].row = next_row(saldos)]
            /\ pc' = [pc EXCEPT ![s] = "set_new_item"]
    /\ ui' = Quiet
    /\ UNCHANGED << sheets, cache, mode, item, nextId, faults, env >>

\* _set, line 200: the row exists, write its balance cell.
SetUpdate(s) ==
    /\ pc[s] = "set_update"
    /\ "SALDOS" \in present
    /\ saldos' = update_cell(saldos, loc[s].row, "saldo_atual", << loc[s].novo >>)
    /\ pc' = [pc EXCEPT ![s] = "set_done"]
    /\ loc' = [loc EXCEPT ![s].row = 0]
    /\ ui' = Quiet
    /\ UNCHANGED << transacoes, contagens, cache, mode, item, nextId, faults,
                    env >>

\* _set, line 205: write the identifier cell of the new row.
SetNewItem(s) ==
    /\ pc[s] = "set_new_item"
    /\ "SALDOS" \in present
    /\ saldos' = update_cell(saldos, loc[s].row, "item_id", item[s])
    /\ pc' = [pc EXCEPT ![s] = "set_new_saldo"]
    /\ ui' = Quiet
    /\ UNCHANGED << transacoes, contagens, cache, mode, item, loc, nextId,
                    faults, env >>

\* _set, line 206: write the balance cell of the new row.
SetNewSaldo(s) ==
    /\ pc[s] = "set_new_saldo"
    /\ "SALDOS" \in present
    /\ saldos' = update_cell(saldos, loc[s].row, "saldo_atual", << loc[s].novo >>)
    /\ pc' = [pc EXCEPT ![s] = "set_done"]
    /\ loc' = [loc EXCEPT ![s].row = 0]
    /\ ui' = Quiet
    /\ UNCHANGED << transacoes, contagens, cache, mode, item, nextId, faults,
                    env >>

\* An API call of _set raises (the scan or a cell update): with_retry runs
\* _set again from its start, or raises after the last attempt, in which
\* case line 211 is not reached.
SetFail(s) ==
    /\ pc[s] \in {"set_scan", "set_update", "set_new_item", "set_new_saldo"}
    /\ CallFails(s, "SALDOS")
    /\ IF retry_again(loc[s].i)
       THEN Retry(s, "set_scan")
       ELSE Raised(s)
    /\ UNCHANGED << sheets, cache, mode, nextId, env >>

\* read_saldos_df.clear(), line 211, a mutation of which is to leave the
\* cached frame in place.
cache_kept == cache

cache_cleared == NoCache

\* set_saldo_in_saldos, lines 209-214, then the toast and the reset.
SetDone(s) ==
    /\ pc[s] = "set_done"
    /\ cache' = cache_cleared
    /\ Registrado(s)
    /\ UNCHANGED << sheets, mode, nextId, env >>

\* @st.cache_data(ttl=30): the cached frame expires.
CacheExpire ==
    /\ cache.valid
    /\ cache' = NoCache
    /\ ui' = Quiet
    /\ UNCHANGED << sheets, pc, mode, item, loc, nextId, faults, env >>

\* ------------------------------------------------------------ the login
\* The first run of a browser session, lines 350-417: the user_id of the
\* cookie is taken into the session and kept when it is the user_id of an
\* active user; otherwise it is dropped, the cookie emptied and the login
\* screen shown.
FirstRun(s) ==
    /\ pc[s] = "start"
    /\ IF cookie[s] # NoUser /\ cookie[s] \in ucache
       THEN /\ user' = [user EXCEPT ![s] = cookie[s]]
            /\ pc' = [pc EXCEPT ![s] = "await"]
            /\ UNCHANGED cookie
       ELSE /\ user' = [user EXCEPT ![s] = NoUser]
            /\ cookie' = [cookie EXCEPT ![s] = NoUser]
            /\ pc' = [pc EXCEPT ![s] = "login"]
    /\ ui' = Signal(s, "none")
    /\ UNCHANGED << sheets, cache, mode, item, loc, nextId, faults, present,
                    usuarios, ucache >>

\* A run of a session whose user is not an active user of the cached
\* frame any more, lines 380-392 and 417: the login screen.
LoginGate(s) ==
    /\ AtRest(s) \/ pc[s] = "rerun"
    /\ user[s] # NoUser
    /\ user[s] \notin ucache
    /\ user' = [user EXCEPT ![s] = NoUser]
    /\ cookie' = [cookie EXCEPT ![s] = NoUser]
    /\ pc' = [pc EXCEPT ![s] = "login"]
    /\ loc' = [loc EXCEPT ![s] = Loc0]
    /\ ui' = Signal(s, "none")
    /\ UNCHANGED << sheets, cache, mode, item, nextId, faults, present,
                    usuarios, ucache >>

\* "Entrar", lines 401-414, for the user u of the select box: with the
\* right PIN the user_id goes to the session and the cookie and the script
\* reruns, past the login; with a wrong one the error is shown.
Login(s, u, pin_ok) ==
    /\ pc[s] = "login"
    /\ u \in ucache
    /\ IF pin_ok
       THEN /\ user' = [user EXCEPT ![s] = u]
            /\ cookie' = [cookie EXCEPT ![s] = u]
            /\ IF item[s] = NoItem
               THEN /\ pc' = [pc EXCEPT ![s] = "await"]
                    /\ ui' = Signal(s, "none")
                    /\ UNCHANGED cache
               ELSE PageRun(s, item[s])
       ELSE /\ ui' = Signal(s, "err_pin")
            /\ UNCHANGED << user, cookie, pc, cache >>
    /\ UNCHANGED << sheets, mode, item, loc, nextId, faults, present,
                    usuarios, ucache >>

\* "Sair", lines 463-469.
Sair(s) ==
    /\ AtRest(s)
    /\ Authed(s)
    /\ user' = [user EXCEPT ![s] = NoUser]
    /\ cookie' = [cookie EXCEPT ![s] = NoUser]
    /\ pc' = [pc EXCEPT ![s] = "login"]
    /\ ui' = Signal(s, "none")
    /\ UNCHANGED << sheets, cache, mode, item, loc, nextId, faults, present,
                    usuarios, ucache >>

\* The flag ativo of a user is cleared in USUARIOS, outside the program.
Deactivate(u) ==
    /\ u \in usuarios
    /\ usuarios' = usuarios \ {u}
    /\ ui' = Quiet
    /\ UNCHANGED << sheets, cache, pc, mode, item, loc, nextId, faults,
                    present, ucache, user, cookie >>

\* @st.cache_data(ttl=600), line 118: the cached frame of USUARIOS expires
\* and the next run reads the sheet.
UsersRefresh ==
    /\ ucache # usuarios
    /\ ucache' = usuarios
    /\ ui' = Quiet
    /\ UNCHANGED << sheets, cache, pc, mode, item, loc, nextId, faults,
                    present, usuarios, user, cookie >>

\* ------------------------------------------------- the spreadsheet's owner
\* A sheet is deleted or renamed in the spreadsheet, outside the program.
RemoveSheet(name) ==
    /\ name \in present
    /\ present' = present \ {name}
    /\ ui' = Quiet
    /\ UNCHANGED << sheets, cache, pc, mode, item, loc, nextId, faults,
                    usuarios, ucache, user, cookie >>

\* ------------------------------------------------------- specifications
\* Movements started so far, and clicks whose run has not started.
Started == (nextId - 1) + Cardinality({ s \in Sessions : pc[s] = "rerun" })

\* What a user does.
UserAction(s) ==
    \/ \E raw \in RawIds : OpenUrl(s, raw)
    \/ \E raw \in RawIds : TypeItem(s, raw)
    \/ \E m \in Modes : SetMode(s, m)
    \/ Limpar(s)
    \/ \E q \in Qtys, chk \in BOOLEAN : ConfirmClick(s, q, chk)

\* The single writer stops once n movements have been started.
UserStep(s, n) == Started < n /\ UserAction(s)

\* Session s has recorded a movement: a row carries its user_id.
HasMoved(s) ==
    \/ \E k \in 1..Len(transacoes) : transacoes[k].user_id = user[s]
    \/ \E k \in 1..Len(contagens) : contagens[k].user_id = user[s]

\* Concurrent users: each records one movement and stops.
UserStepOnce(s) == ~HasMoved(s) /\ UserAction(s)

RunStep(s) ==
    \/ ConfirmRun(s)
    \/ CountAppend(s)
    \/ TransAppend(s)
    \/ DeltaRead(s)
    \/ SetScan(s)
    \/ SetUpdate(s)
    \/ SetNewItem(s)
    \/ SetNewSaldo(s)
    \/ SetDone(s)

FaultStep(s) ==
    \/ CountAppendFail(s)
    \/ TransAppendFail(s)
    \/ SetFail(s)

\* Movements one at a time.  The sessions share the sheets and the cache and
\* nothing else, and every script run reads its session's mode, item and
\* widgets afresh, so a run of several sessions taking turns is, for the
\* sheets and the cache, the run of one session: the turns are modelled as
\* the movements of Writer.
Writer == CHOOSE s \in Sessions : TRUE

\* One writer, API calls may fail.
Next ==
    \/ UserStep(Writer, MaxMovesFault)
    \/ RunStep(Writer)
    \/ FaultStep(Writer)
    \/ CacheExpire

Spec == Init /\ [][Next]_vars

\* One writer, every API call succeeds.
NextOK ==
    \/ UserStep(Writer, MaxMoves)
    \/ RunStep(Writer)
    \/ CacheExpire

SpecOK == Init /\ [][NextOK]_vars

\* The sheet SALDOS when the program is first used: empty, or with the
\* stock of an item entered by hand.
StockSaldos ==
    { << >>, << [item_id |-> << "A" >>, saldo_atual |-> << 1 >>] >> }

\* The sheet the write at pc uses.
SheetOf(p) ==
    CASE p = "count_append" -> "CONTAGENS"
      [] p = "trans_append" -> "TRANSACOES"
      [] OTHER -> "SALDOS"

\* The calls that raise because their sheet is absent.
AbsentStep(s) ==
    \/ "CONTAGENS" \notin present /\ CountAppendFail(s)
    \/ "TRANSACOES" \notin present /\ TransAppendFail(s)
    \/ "SALDOS" \notin present /\ SetFail(s)

\* One writer, sheets may disappear, every call on a present sheet succeeds.
NextAbsent ==
    \/ UserStep(Writer, MaxMovesAbsent)
    \/ RunStep(Writer)
    \/ AbsentStep(Writer)
    \/ \E name \in SheetNames : RemoveSheet(name)
    \/ CacheExpire

InitAbsent ==
    /\ InitRecorder
    /\ saldos \in StockSaldos
    /\ pc = [s \in Sessions |-> "await"]
    /\ user = [s \in Sessions |-> s]
    /\ cookie = [s \in Sessions |-> s]

SpecAbsent == InitAbsent /\ [][NextAbsent]_vars

\* The browser of the writer opens the page with the cookie of an earlier
\* login, of a user still active or not, or with none; nobody is logged in.
InitAuth ==
    /\ InitRecorder
    /\ saldos \in StockSaldos
    /\ pc = [s \in Sessions |-> "start"]
    /\ user = [s \in Sessions |-> NoUser]
    /\ cookie \in { [s \in Sessions |-> IF s = Writer THEN c ELSE NoUser] :
                      c \in UserIds \cup {NoUser} }

\* One writer who logs in and out, users are deactivated, every API call
\* succeeds.
NextAuth ==
    \/ FirstRun(Writer)
    \/ LoginGate(Writer)
    \/ \E u \in UserIds, pin_ok \in BOOLEAN : Login(Writer, u, pin_ok)
    \/ Sair(Writer)
    \/ \E u \in UserIds : Deactivate(u)
    \/ UsersRefresh
    \/ UserStep(Writer, MaxMovesAuth)
    \/ RunStep(Writer)
    \/ CacheExpire

SpecAuth == InitAuth /\ [][NextAuth]_vars

\* Sheets SALDOS filled by hand, the identifiers as they were typed.
HandSaldos ==
    { << >>,
      << [item_id |-> << "a" >>, saldo_atual |-> << 1 >>] >>,
      << [item_id |-> << " ", "A", " " >>, saldo_atual |-> << 1 >>] >>,
      << [item_id |-> << "b", " " >>, saldo_atual |-> EmptyCell],
         [item_id |-> << "A" >>, saldo_atual |-> << 1 >>] >>,
      << [item_id |-> << "X" >>, saldo_atual |-> << 1 >>],
         [item_id |-> << " ", "b" >>, saldo_atual |-> << 1 >>] >>,
      << [item_id |-> << "a" >>, saldo_atual |-> << 1 >>],
         [item_id |-> << "A" >>, saldo_atual |-> << 0 >>] >> }

InitNorm ==
    /\ InitRecorder
    /\ saldos \in HandSaldos
    /\ pc = [s \in Sessions |-> "await"]
    /\ user = [s \in Sessions |-> s]
    /\ cookie = [s \in Sessions |-> s]

\* One writer on a sheet SALDOS filled by hand, every API call succeeds.
NextNorm ==
    \/ UserStep(Writer, MaxMovesNorm)
    \/ RunStep(Writer)
    \/ CacheExpire

SpecNorm == InitNorm /\ [][NextNorm]_vars

\* Two concurrent users, one movement each, every API call succeeds.
NextConc ==
    \/ \E s \in Sessions : UserStepOnce(s)
    \/ \E s \in Sessions : RunStep(s)
    \/ CacheExpire

SpecConc == Init /\ [][NextConc]_vars

\* ------------------------------------------------------------ the claims
\* The items of ITENS, by normalized identifier.
ItemIds == { normalize_item_id(ITENS[k].item_id) : k \in 1..Len(ITENS) }

RECURSIVE SumEfetiva(_, _)
SumEfetiva(rows, it) ==
    IF rows = <<>> THEN 0
    ELSE (IF Head(rows).item_id = it THEN Head(rows).quantidade_efetiva ELSE 0)
         + SumEfetiva(Tail(rows), it)

\* The sum of quantidade_efetiva over the TRANSACOES rows of an item.
LedgerSum(it) == SumEfetiva(transacoes, it)

\* The balance SALDOS holds for an item, 0 when it has no row.
Saldo(it) == get_saldo(read_saldos(saldos), it)

\* The SALDOS rows of an item.
SaldoRows(it) == { k \in 1..Len(saldos) : normalize_item_id(saldos[k].item_id) = it }

\* The TRANSACOES rows of a movement.
TransRowsOf(id) == { k \in 1..Len(transacoes) : transacoes[k].trans_id = id }

\* Between the Transaction append and the balance write of a movement.
InWindow(s) ==
    pc[s] \in {"delta_read", "set_scan", "set_update", "set_new_item",
               "set_new_saldo"}

AllAtRest == \A s \in Sessions : AtRest(s)

\* C1: with one writer and every API call succeeding, the balance SALDOS
\* holds for an item equals the sum of quantidade_efetiva over the item's
\* TRANSACOES rows, except between the Transaction append and the balance
\* write of the movement in flight on that item.
C1_BalanceIsLedgerSum ==
    \A it \in ItemIds :
        (\A s \in Sessions : ~(InWindow(s) /\ item[s] = it))
            => Saldo(it) = LedgerSum(it)

\* C1 witness: several movements on one item are complete, one of them
\* negative, and the item holds a balance.
C1_Witness ==
    /\ AllAtRest
    /\ \E it \in ItemIds :
        /\ Saldo(it) # 0
        /\ \E j, k \in 1..Len(transacoes) :
            /\ j < k
            /\ transacoes[j].item_id = it
            /\ transacoes[k].item_id = it
            /\ transacoes[k].quantidade_efetiva < 0

\* C2: when two users have each completed one movement, on two different
\* items, each item has its own SALDOS row and its balance is the one the
\* two movements give when run one after the other, which from the empty
\* table is the item's ledger sum.
C2_DifferentItemsDoNotConflict ==
    ( /\ AllAtRest
      /\ Len(transacoes) = 2
      /\ transacoes[1].item_id # transacoes[2].item_id
      /\ transacoes[1].user_id # transacoes[2].user_id )
    => \A k \in 1..2 :
          /\ Cardinality(SaldoRows(transacoes[k].item_id)) = 1
          /\ Saldo(transacoes[k].item_id) = LedgerSum(transacoes[k].item_id)

\* Movements whose count equalled the theoretical balance, by their
\* CONTAGENS rows.
ZeroCounts == { k \in 1..Len(contagens) : contagens[k].diferenca = 0 }

\* C3 (the ledger side): whatever the interleaving of two users, once both
\* are at rest every movement started has exactly one TRANSACOES row, or is
\* a count that equalled the theoretical balance: the race loses no
\* Transaction.  The lost update itself is the witness.
C3_LedgerKeepsBothRows ==
    AllAtRest =>
        /\ \A id \in 1..(nextId - 1) :
              \/ Cardinality(TransRowsOf(id)) = 1
              \/ \E k \in ZeroCounts : contagens[k].contagem_id = id
        /\ Len(transacoes) + Cardinality(ZeroCounts) = nextId - 1

\* C3 witness: two users have completed movements on the same item, both
\* rows are in TRANSACOES and the balance differs from the ledger sum.
C3_LostUpdate ==
    /\ AllAtRest
    /\ Len(transacoes) = 2
    /\ transacoes[1].item_id = transacoes[2].item_id
    /\ transacoes[1].user_id # transacoes[2].user_id
    /\ Saldo(transacoes[1].item_id) # LedgerSum(transacoes[1].item_id)

\* After the Transaction append of a movement, up to its toast.
Appended(s) == InWindow(s) \/ pc[s] = "set_done"

\* C4: a Transaction append that succeeds on its third attempt, the first
\* two having failed, leaves exactly one TRANSACOES row of the movement
\* (none before the attempt that succeeds, one from then on, whatever the
\* number of failed attempts), and the movement goes on to apply_delta,
\* which writes the balance it computed.
C4_OneRowAfterRetries ==
    \A s \in Sessions :
        /\ pc[s] \in {"count_append", "trans_append"}
              => TransRowsOf(loc[s].id) = {}
        /\ Appended(s) => Cardinality(TransRowsOf(loc[s].id)) = 1
        /\ pc[s] = "set_done" => Saldo(item[s]) = loc[s].novo

\* C4 witness: the append has just succeeded on the third attempt.
C4_Witness ==
    \E s \in Sessions :
        /\ pc[s] = "delta_read"
        /\ loc[s].i = tries - 1
        /\ faults[s] = tries - 1
        /\ Cardinality(TransRowsOf(loc[s].id)) = 1

Sign(n) == IF n > 0 THEN 1 ELSE IF n < 0 THEN -1 ELSE 0

\* C5 as a state predicate: the theoretical balance of a count is the
\* balance SALDOS holds; a count whose quantity c differs from it by d
\* has, once appended, exactly one row, AJUSTE with sinal = sign(d),
\* quantidade = |d| and quantidade_efetiva = d; and the balance written
\* is c.
C5_State ==
    \A s \in Sessions :
        LET c == loc[s].qtd
            t == loc[s].saldo_atual
        IN  /\ pc[s] = "count_append" => t = Saldo(item[s])
            /\ (Appended(s) /\ loc[s].acao = "AJUSTE") =>
                  /\ c # t
                  /\ Cardinality(TransRowsOf(loc[s].id)) = 1
                  /\ \A k \in TransRowsOf(loc[s].id) :
                        /\ transacoes[k].acao = "AJUSTE"
                        /\ transacoes[k].item_id = item[s]
                        /\ transacoes[k].sinal = Sign(c - t)
                        /\ transacoes[k].quantidade = Abs(c - t)
                        /\ transacoes[k].quantidade_efetiva = c - t
            /\ (pc[s] = "set_done" /\ loc[s].acao = "AJUSTE")
                  => Saldo(item[s]) = c

\* C5 as a step: a count that differs from the theoretical balance goes on
\* to the Transaction append.
C5_Step ==
    \A s \in Sessions :
        ( /\ pc[s] = "count_append"
          /\ pc'[s] # "count_append"
          /\ loc[s].qtd # loc[s].saldo_atual )
        => pc'[s] = "trans_append"

\* C5: a count whose counted quantity c >= 0 differs from the theoretical
\* balance t emits exactly one AJUSTE Transaction with sinal = sign(c - t),
\* quantidade = |c - t| and quantidade_efetiva = c - t, and with one writer
\* the resulting balance is c; c = 0 against t > 0 included.
C5_CountAdjusts == [](C5_State) /\ [][C5_Step]_vars

\* C5 witness: a full write-off, c = 0 against t > 0, has been written.
C5_Witness ==
    \E s \in Sessions :
        /\ pc[s] = "set_done"
        /\ loc[s].acao = "AJUSTE"
        /\ loc[s].qtd = 0
        /\ loc[s].saldo_atual > 0
        /\ Saldo(item[s]) = 0

\* The step that ends the CONTAGENS append of a count equal to the
\* theoretical balance.
C6_Step ==
    \A s \in Sessions :
        ( /\ pc[s] = "count_append"
          /\ pc'[s] # "count_append"
          /\ loc[s].qtd = loc[s].saldo_atual )
        => /\ transacoes' = transacoes
           /\ saldos' = saldos
           /\ contagens' \in {contagens, Append(contagens, CountRow(s))}
           /\ ui'[s] = "ok"
           /\ pc'[s] = "await"
           /\ item'[s] = NoItem

\* C6: a count whose quantity equals the theoretical balance appends no
\* row to TRANSACOES and leaves SALDOS as it is, with or without its
\* CONTAGENS row, and ends with the success toast and no item selected.
C6_EqualCountWritesNothing == [][C6_Step]_vars

\* C6 witness: a count of a positive quantity equal to the balance has
\* ended with the toast, its CONTAGENS row written.
C6_Witness ==
    \E s \in Sessions :
        /\ ui[s] = "ok"
        /\ pc[s] = "await"
        /\ contagens # <<>>
        /\ contagens[Len(contagens)].diferenca = 0
        /\ contagens[Len(contagens)].quantidade_contada > 0
        /\ Saldo(contagens[Len(contagens)].item_id)
              = contagens[Len(contagens)].quantidade_contada

\* The run of a click on "Confirmar saida" by session s.
SaidaRun(s) == pc[s] = "rerun" /\ pc'[s] # "rerun" /\ mode[s] = "SAIDA"

\* The movement of session s is accepted for b and q and goes to its
\* Transaction append.
SaidaRecorded(s, b, q) ==
    /\ pc'[s] = "trans_append"
    /\ loc'[s].acao = "SAIDA"
    /\ loc'[s].saldo_atual = b
    /\ loc'[s].delta = -q

SaidaRejected(s) ==
    /\ pc'[s] = "loaded"
    /\ ui'[s] \in {"err_qty", "err_confirm"}
    /\ item'[s] = item[s]
    /\ UNCHANGED sheets

\* A recorded SAIDA ends with the balance b - q.
SaidaBalance(s) ==
    (pc[s] = "set_done" /\ loc[s].acao = "SAIDA")
        => Saldo(item[s]) = loc[s].saldo_atual - loc[s].qtd

\* The three cases of a SAIDA, for every quantity.
C7_Original_Step ==
    \A s \in Sessions :
        LET b == Saldo(item[s])
            q == loc[s].qtd
        IN  /\ SaidaRun(s) =>
                /\ (b - q < 0 /\ ~loc[s].chk) => SaidaRejected(s)
                /\ (b - q < 0 /\ loc[s].chk) => SaidaRecorded(s, b, q)
                /\ (b - q >= 0) => SaidaRecorded(s, b, q)
            /\ SaidaBalance(s)

\* C7 as stated: for a SAIDA of q on a balance b, b - q < 0 without the
\* checkbox is rejected and writes nothing, b - q < 0 with the checkbox is
\* recorded and the balance becomes b - q, and b - q >= 0 is recorded with
\* no confirmation.
C7_Original == [][C7_Original_Step]_vars

\* The three cases of a SAIDA for q > 0, and the rejection of q <= 0.
C7_Amended_Step ==
    \A s \in Sessions :
        LET b == Saldo(item[s])
            q == loc[s].qtd
        IN  /\ SaidaRun(s) =>
                /\ (b - q < 0 /\ ~loc[s].chk) => SaidaRejected(s)
                /\ (q > 0 /\ b - q < 0 /\ loc[s].chk) => SaidaRecorded(s, b, q)
                /\ (q > 0 /\ b - q >= 0) => SaidaRecorded(s, b, q)
                /\ (q <= 0) => SaidaRejected(s)
            /\ SaidaBalance(s)

\* C7 amended: for a SAIDA of q > 0 on a balance b, b - q < 0 without the
\* checkbox is rejected and writes nothing, b - q < 0 with the checkbox is
\* recorded and the balance becomes b - q, and b - q >= 0 is recorded with
\* no confirmation; a SAIDA of q = 0 is rejected whatever the balance and
\* the checkbox.
C7_SaidaConfirmation == [][C7_Amended_Step]_vars

\* C7 witness: a confirmed SAIDA has driven a balance negative.
C7_Witness ==
    \E s \in Sessions :
        /\ pc[s] = "set_done"
        /\ loc[s].acao = "SAIDA"
        /\ loc[s].saldo_atual >= 0
        /\ Saldo(item[s]) < 0

\* The run of a click on an ENTRADA or SAIDA with quantity <= 0.
C8_Step ==
    \A s \in Sessions :
        ( /\ pc[s] = "rerun"
          /\ pc'[s] # "rerun"
          /\ mode[s] \in {"ENTRADA", "SAIDA"}
          /\ loc[s].qtd <= 0 )
        => /\ ui'[s] = "err_qty"
           /\ UNCHANGED sheets
           /\ item[s] # NoItem
           /\ item'[s] = item[s]
           /\ pc'[s] = "loaded"

\* C8: the run of a click on an ENTRADA or SAIDA with quantity <= 0 shows
\* the quantity error, writes to no sheet and leaves the item loaded.
C8_NonPositiveRejected == [][C8_Step]_vars

\* C8 witness: the quantity error is on screen, the item still loaded,
\* after earlier movements.
C8_Witness ==
    \E s \in Sessions :
        /\ ui[s] = "err_qty"
        /\ pc[s] = "loaded"
        /\ item[s] \in ItemIds
        /\ transacoes # <<>>

\* C9: every TRANSACOES row has quantidade > 0 and quantidade_efetiva =
\* sinal * quantidade, with sinal +1 for ENTRADA, -1 for SAIDA and the sign
\* of quantidade_efetiva for AJUSTE.
C9_RowsWellSigned ==
    \A k \in 1..Len(transacoes) :
        LET r == transacoes[k]
        IN  /\ r.quantidade > 0
            /\ r.quantidade_efetiva = r.sinal * r.quantidade
            /\ r.acao \in {"ENTRADA", "SAIDA", "AJUSTE"}
            /\ r.acao = "ENTRADA" => r.sinal = 1
            /\ r.acao = "SAIDA" => r.sinal = -1
            /\ r.acao = "AJUSTE" => r.sinal = Sign(r.quantidade_efetiva)
            /\ r.sinal \in {1, -1}

\* C9 witness: the ledger holds a negative adjustment.
C9_Witness ==
    \E k \in 1..Len(transacoes) :
        /\ transacoes[k].acao = "AJUSTE"
        /\ transacoes[k].sinal = -1

\* The last attempt of a write of session s has failed in this step:
\* with_retry is in its last attempt, no sheet changes and the write is left.
WritePcs == {"count_append", "trans_append", "set_scan", "set_update",
             "set_new_item", "set_new_saldo"}

Exhausted(s) ==
    /\ pc[s] \in WritePcs
    /\ loc[s].i = tries - 1
    /\ UNCHANGED sheets
    /\ pc'[s] # pc[s]
    /\ pc[s] = "set_scan" => pc'[s] \notin {"set_update", "set_new_item"}

Surfaced(s) ==
    /\ ui'[s] = "exception"
    /\ pc'[s] = "loaded"
    /\ item[s] # NoItem
    /\ item'[s] = item[s]

\* Every write that fails after its retries is surfaced.
C10_Original_Step ==
    \A s \in Sessions : Exhausted(s) => Surfaced(s)

C10_Amended_Step ==
    \A s \in Sessions :
        Exhausted(s) =>
            IF pc[s] = "count_append"
            THEN /\ ui'[s] # "exception"
                 /\ loc[s].delta # 0 => pc'[s] = "trans_append" /\ item'[s] = item[s]
                 /\ loc[s].delta = 0 => pc'[s] = "await" /\ ui'[s] = "ok"
            ELSE Surfaced(s)

AbsentEnds(s) ==
    \/ /\ pc[s] \in WritePcs
       /\ SheetOf(pc[s]) \notin present
       /\ loc[s].i = tries - 1
       /\ pc'[s] # pc[s]
    \/ /\ pc[s] \in {"rerun", "delta_read"}
       /\ ReadFails
       /\ pc'[s] # pc[s]

C11_Step ==
    \A s \in Sessions :
        AbsentEnds(s) =>
            /\ ui'[s] = "exception"
            /\ pc'[s] \in {"loaded", "broken"}
            /\ item'[s] = item[s]
            /\ UNCHANGED sheets

\* C11: when a sheet a movement uses (SALDOS, TRANSACOES or CONTAGENS) is
\* absent, the movement ends with an error on screen, without the success
\* toast and without going on to the next write.
C11_AbsentSheetFailsExplicitly == [][C11_Step]_vars

\* apply_delta has read the balance of an item that has no row in SALDOS:
\* the value it writes and returns is delta.
C12_State ==
    \A s \in Sessions :
        ( /\ pc[s] \in {"set_scan", "set_new_item", "set_new_saldo"}
          /\ SaldoRows(item[s]) = {} )
        => loc[s].novo = loc[s].delta

\* The two cell writes of the creation: the identifier cell opens one row
\* below the existing ones, the balance cell completes it.
C12_Step ==
    \A s \in Sessions :
        /\ (pc[s] = "set_new_item" /\ pc'[s] = "set_new_saldo") =>
              /\ SaldoRows(item[s]) = {}
              /\ saldos' = Append(saldos,
                                  [item_id |-> normalize_item_id(item[s]),
                                   saldo_atual |-> EmptyCell])
        /\ (pc[s] = "set_new_saldo" /\ pc'[s] = "set_done") =>
              /\ loc[s].novo = loc[s].delta
              /\ saldos # <<>>
              /\ saldos[Len(saldos)] = [item_id |-> normalize_item_id(item[s]),
                                        saldo_atual |-> EmptyCell]
              /\ saldos' = [saldos EXCEPT ![Len(saldos)].saldo_atual =
                                              << loc[s].delta >>]
              /\ Cardinality(SaldoRows(item[s])) = 1

\* C12: apply_delta for an item that has no row in SALDOS adds exactly one
\* row, with the normalized identifier and a balance equal to delta, leaves
\* every existing row as it was, and returns delta.
C12_ApplyDeltaCreatesRow == [](C12_State) /\ [][C12_Step]_vars

\* C12 witness: a second item has got its row below the row of a first,
\* with the delta as its balance.
C12_Witness ==
    \E s \in Sessions :
        /\ pc[s] = "set_done"
        /\ Len(saldos) = 2
        /\ saldos[2] = [item_id |-> item[s], saldo_atual |-> << loc[s].delta >>]
        /\ loc[s].delta # 0
        /\ saldos[1].item_id # item[s]
        /\ saldos[1].saldo_atual # EmptyCell

\* The balance get_saldo_cached returns for an identifier in the state a
\* step leads to.
get_saldo_cached_next(item_id) ==
    get_saldo(IF cache'.valid THEN cache'.df ELSE read_saldos(saldos'),
              item_id)

\* The step that ends set_saldo_in_saldos after its write has succeeded.
C13_Step ==
    \A s \in Sessions :
        (pc[s] = "set_done" /\ pc'[s] # "set_done") =>
            /\ ~cache'.valid
            /\ get_saldo_cached_next(item[s]) = loc[s].novo

\* C13: when set_saldo_in_saldos has completed for an item, the cache of
\* read_saldos_df is empty, so the next get_saldo_cached for the item reads
\* the sheet and returns the value just written, whatever the cache held
\* before.
C13_ReadAfterWriteIsFresh == [][C13_Step]_vars

\* C13 witness: a write is complete while the cache holds a frame read
\* before it, with another balance for the item.
C13_Witness ==
    \E s \in Sessions :
        /\ pc[s] = "set_done"
        /\ cache.valid
        /\ get_saldo(cache.df, item[s]) # loc[s].novo
        /\ Saldo(item[s]) = loc[s].novo
        /\ loc[s].i > 0

\* The rows of CONTAGENS and TRANSACOES that a step appends.
NewCountRows == { contagens'[k] : k \in (Len(contagens) + 1)..Len(contagens') }
NewTransRows == { transacoes'[k] : k \in (Len(transacoes) + 1)..Len(transacoes') }

\* The session whose run is past the click, up to its toast.
Running(s) == pc[s] \in WritePcs \cup {"delta_read", "set_done"}

\* The rows a step appends carry the user_id of the session that runs.
RowsCarryUser ==
    \A r \in NewCountRows \cup NewTransRows :
        \E s \in Sessions :
            /\ Running(s)
            /\ user[s] # NoUser
            /\ r.user_id = user[s]

C14_Original_Step ==
    /\ RowsCarryUser
    /\ \A r \in NewCountRows \cup NewTransRows : r.user_id \in usuarios

\* C14 as stated: every row appended to TRANSACOES or CONTAGENS carries the
\* user_id of the user logged in in the session, and that user is an active
\* user of USUARIOS; no row is appended while no user is logged in.
C14_Original ==
    /\ [](\A s \in Sessions : Running(s) => user[s] # NoUser)
    /\ [][C14_Original_Step]_vars

\* The run of a click goes past the login only with the user_id of an
\* active user of the cached frame of USUARIOS.
C14_Gate ==
    \A s \in Sessions :
        (pc[s] = "rerun" /\ Running(s)') =>
            /\ user[s] # NoUser
            /\ user[s] \in ucache
            /\ user'[s] = user[s]

\* C14 amended: every row appended to TRANSACOES or CONTAGENS carries the
\* user_id of the user logged in in the session, a user who was active in
\* the cached frame of USUARIOS when the run of the click started; no row
\* is appended while no user is logged in, and a user_id restored from the
\* cookie that is not active in the cached frame never reaches the
\* recorder.
C14_RowsCarryAuthenticatedUser ==
    /\ [](\A s \in Sessions :
            /\ Running(s) => user[s] # NoUser
            /\ user[s] # NoUser => cookie[s] = user[s]
            /\ pc[s] \in {"start", "login"} => user[s] = NoUser)
    /\ [][RowsCarryUser /\ C14_Gate]_vars

\* C14 witness: a user who logged in on the login screen with another
\* user's stale cookie has recorded a count and its adjustment.
C14_Witness ==
    /\ transacoes # <<>>
    /\ contagens # <<>>
    /\ transacoes[1].user_id = contagens[1].user_id
    /\ transacoes[1].user_id \in ActiveUsers
    /\ transacoes[1].user_id # Writer
    /\ user[Writer] = transacoes[1].user_id

\* A run that loads an identifier: the step sets the query parameter of
\* session s, or redraws the page for the one it has.
Loads(s) ==
    /\ AtRest(s)
    /\ AtRest(s)'
    /\ item'[s] # NoItem
    /\ item'[s] # item[s] \/ mode'[s] # mode[s]

C15_Step ==
    \A s \in Sessions :
        (Loads(s) /\ get_item(ITENS, item'[s]) = 0) =>
            /\ ui'[s] = "err_notfound"
            /\ pc'[s] = "notfound"
            /\ UNCHANGED sheets

\* No form, no click and no write for an identifier that is not in ITENS.
C15_State ==
    \A s \in Sessions :
        /\ pc[s] = "notfound" => get_item(ITENS, item[s]) = 0
        /\ (item[s] # NoItem /\ get_item(ITENS, item[s]) = 0)
              => pc[s] = "notfound"

\* C15: when the identifier, scanned or typed, is not found in ITENS, the
\* not-found error is shown, the recorder does not reach the item-loaded
\* state, so no movement can be confirmed, and no row is written to
\* TRANSACOES, CONTAGENS or SALDOS, whatever the mode.
C15_UnknownItemNotLoaded == [](C15_State) /\ [][C15_Step]_vars

\* C15 witness: an unknown identifier is on screen with its error in the
\* mode INVENTARIO, after a movement.
C15_Witness ==
    \E s \in Sessions :
        /\ pc[s] = "notfound"
        /\ ui[s] = "err_notfound"
        /\ item[s] = << "X" >>
        /\ mode[s] = "INVENTARIO"
        /\ transacoes # <<>>

\* The step that ends a recorded movement, or "Limpar item".
Resets(s) ==
    /\ pc[s] \in {"loaded", "count_append", "set_done"}
    /\ pc'[s] = "await"

C16_Step ==
    \A s \in Sessions :
        /\ Resets(s) =>
              /\ item'[s] = NoItem
              /\ mode'[s] = mode[s]
        /\ mode'[s] # mode[s] => \E m \in Modes : SetMode(s, m)

\* C16: after a movement is recorded, and after "Limpar item", the recorder
\* awaits an item with none selected and the mode is the one selected
\* before; the mode changes only when the user selects another mode.
C16_ModeIsSticky == [][C16_Step]_vars

\* The row of the frame get_saldo_cached reads for an identifier, 0 when it
\* returns the default.
saldo_row(df, item_id) ==
    LET hits == { k \in 1..Len(df) : df[k].item_id = normalize_item_id(item_id) }
    IN  IF hits = {} THEN 0 ELSE CHOOSE k \in hits : \A j \in hits : k <= j

\* An identifier without its surrounding blanks, in lower case.
Lower(c) == CASE c = "A" -> "a"
              [] c = "B" -> "b"
              [] c = "X" -> "x"
              [] OTHER -> c

Folded(x) ==
    LET lo == CHOOSE k \in 1..(Len(x) + 1) :
                  /\ \A j \in 1..(k - 1) : x[j] = " "
                  /\ k <= Len(x) => x[k] # " "
        hi == CHOOSE k \in 0..Len(x) :
                  /\ \A j \in (k + 1)..Len(x) : x[j] = " "
                  /\ k >= 1 => x[k] # " "
    IN  [k \in 1..(IF hi < lo THEN 0 ELSE hi - lo + 1) |-> Lower(x[lo + k - 1])]

\* Two identifiers that differ in letter case or surrounding whitespace only.
Variants(x, y) == Folded(x) = Folded(y)

\* The identifiers of the request, of ITENS and of SALDOS.
AnyIds ==
    RawIds \cup { ITENS[k].item_id : k \in 1..Len(ITENS) }
           \cup { saldos[k].item_id : k \in 1..Len(saldos) }

\* Variants resolve to the same Item, read the same balance from the same
\* row, and set_saldo_in_saldos (which normalizes at line 189) writes the
\* row get_saldo_cached reads.
C17_State ==
    \A x, y \in AnyIds :
        Variants(x, y) =>
            /\ get_item(ITENS, x) = get_item(ITENS, y)
            /\ saldo_row(read_saldos(saldos), x) = saldo_row(read_saldos(saldos), y)
            /\ get_saldo(read_saldos(saldos), x) = get_saldo(read_saldos(saldos), y)
            /\ find_row(saldos, normalize_item_id(x))
                  = saldo_row(read_saldos(saldos), y)

\* A movement on an identifier whose row holds a variant of it writes that
\* row and adds none.
C17_Step ==
    \A s \in Sessions :
        ( /\ saldos' # saldos
          /\ pc[s] \in {"set_update", "set_new_item", "set_new_saldo"}
          /\ SaldoRows(item[s]) # {} )
        => /\ Len(saldos') = Len(saldos)
           /\ \A k \in 1..Len(saldos) :
                 k # find_row(saldos, item[s]) => saldos'[k] = saldos[k]
           /\ saldos'[find_row(saldos, item[s])].saldo_atual = << loc[s].novo >>

\* C17: identifier lookups are case- and whitespace-insensitive: variants
\* of an identifier, in the request, in ITENS or in SALDOS, resolve to the
\* same Item with get_item, and get_saldo_cached and set_saldo_in_saldos
\* read and write the same SALDOS row.
C17_LookupsNormalize == [](C17_State) /\ [][C17_Step]_vars

\* C17 witness: a movement on item B, which ITENS spells "b", has updated
\* the second row of SALDOS, which spells it " b".
C17_Witness ==
    \E s \in Sessions :
        /\ pc[s] = "set_done"
        /\ item[s] = << "B" >>
        /\ Len(saldos) = 2
        /\ saldos[2] = [item_id |-> << " ", "b" >>,
                        saldo_atual |-> << loc[s].novo >>]
        /\ loc[s].novo # 1

\* In with_retry the attempts that raised are fewer than tries, and the
\* name last holds the exception of the latest of them.
C18_State ==
    \A s \in Sessions :
        /\ loc[s].i \in 0..(tries - 1)
        /\ pc[s] \in WritePcs => loc[s].last = loc[s].i

\* The steps of with_retry around an operation of session s.
C18_Step ==
    \A s \in Sessions :
        pc[s] \in WritePcs =>
            \* an attempt raised and another follows: nothing is surfaced
            /\ loc'[s].i = loc[s].i + 1 =>
                  /\ loc[s].i + 1 < tries
                  /\ ui'[s] # "exception"
                  /\ pc'[s] \in WritePcs
                  /\ SheetOf(pc'[s]) = SheetOf(pc[s])
                  /\ UNCHANGED sheets
            \* the last attempt raised: its exception goes to the caller
            /\ Exhausted(s) =>
                  /\ loc'[s].i = 0
                  /\ pc'[s] \in WritePcs => SheetOf(pc'[s]) # SheetOf(pc[s])
            /\ ui'[s] = "exception" =>
                  /\ loc[s].i = tries - 1
                  /\ loc'[s].last = tries
            \* an attempt returned: the operation is not called again
            /\ transacoes' # transacoes => pc'[s] = "delta_read"
            /\ contagens' # contagens => pc'[s] \in {"trans_append", "await"}
            /\ pc[s] \in {"set_update", "set_new_saldo"} /\ saldos' # saldos
                  => pc'[s] = "set_done"

\* C18: with_retry calls the operation at most tries (3) times, returns at
\* the first call that succeeds without calling it again, and when every
\* attempt fails raises the exception of the last attempt, not before.
C18_RetryIsBounded == [](C18_State) /\ [][C18_Step]_vars

\* C18 witness: the third attempt of a balance write has raised and its
\* exception is on screen.
C18_Witness ==
    \E s \in Sessions :
        /\ ui[s] = "exception"
        /\ loc[s].last = tries
        /\ pc[s] = "loaded"
        /\ transacoes # <<>>
        /\ transacoes[Len(transacoes)].item_id = item[s]

\* A session between its Transaction append and its toast has its row in
\* the ledger, and every item with a row in SALDOS has one in TRANSACOES.
C19_State ==
    /\ \A s \in Sessions :
          Appended(s) =>
              \E k \in TransRowsOf(loc[s].id) :
                  /\ transacoes[k].item_id = item[s]
                  /\ transacoes[k].quantidade_efetiva = loc[s].delta
    /\ \A k \in 1..Len(saldos) :
          \E j \in 1..Len(transacoes) :
              transacoes[j].item_id = normalize_item_id(saldos[k].item_id)

\* A step that changes SALDOS belongs to a movement whose row is in
\* TRANSACOES already, and the step in which the Transaction append fails
\* for good changes nothing and ends the movement.
C19_Step ==
    /\ saldos' # saldos =>
          \E s \in Sessions :
              /\ pc[s] \in {"set_update", "set_new_item", "set_new_saldo"}
              /\ Cardinality(TransRowsOf(loc[s].id)) = 1
              /\ transacoes' = transacoes
    /\ \A s \in Sessions :
          (pc[s] = "trans_append" /\ Exhausted(s)) =>
              /\ UNCHANGED sheets
              /\ pc'[s] = "loaded"
              /\ ui'[s] = "exception"

\* C19: in every movement that records a Transaction the TRANSACOES row is
\* appended before SALDOS is updated, and a Transaction append that fails
\* after its retries leaves SALDOS unchanged: no balance change is
\* persisted without its Transaction in the ledger.
C19_LedgerBeforeBalance == [](C19_State) /\ [][C19_Step]_vars

\* C19 witness: the Transaction append of a second movement has failed
\* after its retries; the balance is still the one of the first movement.
C19_Witness ==
    \E s \in Sessions :
        /\ ui[s] = "exception"
        /\ pc[s] = "loaded"
        /\ Len(transacoes) = 1
        /\ nextId = 3
        /\ transacoes[1].item_id = item[s]
        /\ Saldo(item[s]) = LedgerSum(item[s])
        /\ Saldo(item[s]) # 0

\* No two rows of SALDOS hold the same normalized identifier.
C20_State ==
    \A j, k \in 1..Len(saldos) :
        normalize_item_id(saldos[j].item_id) = normalize_item_id(saldos[k].item_id)
            => j = k

\* The attempt that follows a creation cut short after the identifier cell
\* finds the row and writes its balance cell.
C20_Step ==
    \A s \in Sessions :
        ( /\ pc[s] = "set_scan"
          /\ pc'[s] \in {"set_update", "set_new_item"}
          /\ SaldoRows(item[s]) # {} )
        => /\ pc'[s] = "set_update"
           /\ loc'[s].row \in SaldoRows(item[s])

\* C20: with one writer at a time SALDOS never holds two rows for the same
\* normalized identifier, whatever the set_saldo_in_saldos calls, a
\* creation that fails between its two cell writes and is retried
\* included: the retry updates the row already created.
C20_OneRowPerItem == [](C20_State) /\ [][C20_Step]_vars

\* C20 witness: a retry has found the row that the failed attempt left
\* with an identifier and no balance, below the row of another item.
C20_Witness ==
    \E s \in Sessions :
        /\ pc[s] = "set_update"
        /\ loc[s].i > 0
        /\ loc[s].row = 2
        /\ saldos[2] = [item_id |-> item[s], saldo_atual |-> EmptyCell]
        /\ Len(saldos) = 2

\* The movement of session s stands between its acceptance and the write
\* of its balance cell.
Pending(s) ==
    pc[s] \in {"count_append", "trans_append", "delta_read", "set_scan",
               "set_update", "set_new_item", "set_new_saldo"}

\* The balance the movement of s was accepted on is the one SALDOS holds
\* until the movement writes its own, and a count is of a quantity >= 0.
C21_State ==
    \A s \in Sessions :
        Pending(s) =>
            /\ Saldo(item[s]) = loc[s].saldo_atual
            /\ loc[s].acao \in {"ENTRADA", "SAIDA", "AJUSTE"}
            /\ loc[s].acao = "AJUSTE" => loc[s].qtd >= 0
            /\ loc[s].acao # "AJUSTE" => loc[s].qtd > 0

\* The run of a click accepts a SAIDA whose projected balance is negative
\* only with the checkbox ticked, and the accepted movement keeps its
\* quantity, action and item up to its balance write.
C21_Accept ==
    \A s \in Sessions :
        /\ ( /\ pc[s] = "rerun"
             /\ Pending(s)'
             /\ mode[s] = "SAIDA"
             /\ Saldo(item[s]) - loc[s].qtd < 0 )
           => loc[s].chk
        /\ (pc[s] = "rerun" /\ Pending(s)') =>
              /\ loc'[s].qtd = loc[s].qtd
              /\ loc'[s].acao = acao_of(mode[s])
        /\ (Pending(s) /\ Pending(s)') =>
              /\ loc'[s].qtd = loc[s].qtd
              /\ loc'[s].acao = loc[s].acao
              /\ loc'[s].saldo_atual = loc[s].saldo_atual
              /\ item'[s] = item[s]

\* A step that changes the balance of an item is the balance write of a
\* pending movement on it: an ENTRADA raises it, a SAIDA lowers it by its
\* quantity, a count leaves the counted quantity; it goes from >= 0 to < 0
\* only in the write of a SAIDA accepted on a negative projected balance.
C21_Write ==
    saldos' # saldos =>
        \A it \in ItemIds :
            LET b == get_saldo(read_saldos(saldos), it)
                n == get_saldo(read_saldos(saldos'), it)
            IN  n # b =>
                    \E s \in Sessions :
                        /\ item[s] = it
                        /\ pc[s] \in {"set_update", "set_new_saldo"}
                        /\ loc[s].acao = "ENTRADA" => n > b
                        /\ loc[s].acao = "SAIDA" => n = b - loc[s].qtd
                        /\ loc[s].acao = "AJUSTE" =>
                              /\ n = loc[s].qtd
                              /\ n >= 0
                        /\ (b >= 0 /\ n < 0) =>
                              /\ loc[s].acao = "SAIDA"
                              /\ loc[s].saldo_atual - loc[s].qtd < 0

\* C21: with one writer at a time the balance of an item goes from
\* non-negative to negative only by a SAIDA whose "Confirmar mesmo assim"
\* checkbox was ticked; an ENTRADA never lowers the balance and a count
\* leaves the balance equal to the counted quantity, which is >= 0.
C21_NegativeOnlyByConfirmedSaida ==
    [](C21_State) /\ [][C21_Accept /\ C21_Write]_vars

\* C21 witness: after an ENTRADA and a SAIDA that emptied the stock, a
\* SAIDA with the checkbox ticked has taken the balance of the item from 0
\* below 0.
C21_Witness ==
    \E s \in Sessions :
        /\ pc[s] = "set_done"
        /\ loc[s].acao = "SAIDA"
        /\ loc[s].saldo_atual = 0
        /\ Saldo(item[s]) = -loc[s].qtd
        /\ Len(transacoes) = 3
        /\ transacoes[1].acao = "ENTRADA"
        /\ transacoes[2].acao = "SAIDA"
        /\ \A k \in 1..3 : transacoes[k].item_id = item[s]

====
